---- MODULE Spec2Model ----
(***************************************************************************)
(* A model of ld_env_sync_daemon.py: the Debouncer, the evaluation of the  *)
(* tracked flags, the .env writer (backup_env_file, write_env_values, the  *)
(* python-dotenv set_key it calls) and the EnvSyncDaemon lifecycle.        *)
(*                                                                         *)
(* Text is a sequence of one-character strings, so that a value written    *)
(* into a KEY=value line and read back is computed, not assumed.           *)
(***************************************************************************)
EXTENDS Integers, Sequences, FiniteSets, TLC

(***************************************************************************)
(* Bounds of the model.                                                    *)
(***************************************************************************)
MaxTimers == 2        \* threading.Timer objects created in one behaviour
MaxTime == 3          \* last tick of the debounce clock
MaxPersists == 2      \* write_env_values calls of the sequential caller
MaxCancels == 2       \* Debouncer.cancel() calls in one behaviour
MaxChanges == 1       \* changes of remote flag values in one behaviour
MaxStops == 2         \* stop requests in one behaviour
MaxWaits == 2         \* passes of the readiness wait loop before it gives up
MaxSecond == 1        \* last wall-clock second of the backup timestamps

NL == "\n"
EQ == "="

(***************************************************************************)
(* Text helpers: what str.split on lines and the dotenv parser do.         *)
(***************************************************************************)
RECURSIVE IndexOf(_, _, _)
\* first position >= i of character c in text s, 0 when there is none
IndexOf(s, c, i) ==
    IF i > Len(s) THEN 0
    ELSE IF s[i] = c THEN i
    ELSE IndexOf(s, c, i + 1)

RECURSIVE SplitLines(_)
\* the lines of a text, each with its terminating newline when it has one
SplitLines(s) ==
    IF s = <<>> THEN <<>>
    ELSE LET n == IndexOf(s, NL, 1)
         IN  IF n = 0 THEN <<s>>
             ELSE <<SubSeq(s, 1, n)>> \o SplitLines(SubSeq(s, n + 1, Len(s)))

\* a line without its terminating newline
Chomp(line) ==
    IF line # <<>> /\ line[Len(line)] = NL THEN SubSeq(line, 1, Len(line) - 1)
    ELSE line

\* the key a dotenv binding line binds: the text before the first '=' (the
\* whole line when it has none); <<>> for a blank line, which binds nothing
LineKey(line) ==
    LET body == Chomp(line)
        n == IndexOf(body, EQ, 1)
    IN  IF n = 0 THEN body ELSE SubSeq(body, 1, n - 1)

\* the value of a binding line: the text after the first '='
LineValue(line) ==
    LET body == Chomp(line)
        n == IndexOf(body, EQ, 1)
    IN  IF n = 0 THEN <<>> ELSE SubSeq(body, n + 1, Len(body))

RECURSIVE Concat(_)
Concat(ss) == IF ss = <<>> THEN <<>> ELSE Head(ss) \o Concat(Tail(ss))

(***************************************************************************)
(* Configuration domain (load_config_from_env) and the data of the model.  *)
(***************************************************************************)
KA == <<"A">>
KB == <<"B">>
KF == <<"F">>          \* a key of the file the daemon does not track

\* the intervals DEBOUNCE_MS can set, in ticks of the model's clock
DebounceChoices == {0, 1, 2}

\* the lists FLAGS can hold: distinct keys, in order
KeyLists == {<<>>, <<KA>>, <<KA, KB>>}

\* str(val) of the values a flag can evaluate to: the fallback "", plain
\* one-line texts, and a text that holds a line break
Fallback == <<>>
VX == <<"x">>
VY == <<"y">>
VMulti == <<"x", NL, "F", EQ, "y">>
Values == {Fallback, VX, VY, VMulti}

\* the values a flag takes in the model: every kind for A, two for B
ValuesOf(key) == IF key = <<"B">> THEN {Fallback, VY} ELSE Values

NoFile == <<"nofile">>     \* os.path.exists(path) is false
Absent == <<"absent">>     \* the file binds no value to the key

\* the contents ENV_FILE_PATH can have when the daemon starts
InitialFiles ==
    { NoFile,
      KA \o <<EQ>> \o VY \o <<NL>> \o KF \o <<EQ>> \o VX \o <<NL>>,
      KF \o <<EQ>> \o VX }

Threads == 0 .. MaxTimers  \* 0: the control thread; i: the thread of Timer i

VARIABLES
    flag_keys,       \* DaemonConfig.flag_keys
    backup_enabled,  \* DaemonConfig.backup_enabled
    sdk_key,         \* DaemonConfig.sdk_key is non-blank
    debounce,        \* Debouncer._debounce_seconds, in ticks
    file,            \* the content of ENV_FILE_PATH, or NoFile
    perm,            \* its permission bits: "600" or "other"
    backups,         \* second -> content of path.<timestamp>, or NoFile
    second,          \* datetime.now() at second resolution
    remote,          \* key -> the value the flag source evaluates it to
    client,          \* self._client: "none", "open", "closed"
    listeners,       \* keys with a registered change listener
    inflight,        \* change notifications sent and not yet handled
    timer,           \* Debouncer._timer: 0 (None) or the id of a Timer
    timers,          \* the Timer objects created so far
    now,             \* the monotonic clock of the timers, in ticks
    cyc,             \* thread -> its position in _sync_all_flags_to_env
    pc,              \* position of the control thread in start()
    idx,             \* loop counter of the control thread
    stop_event,      \* self._stop_event
    hist             \* history of the run, read by the properties only

vars == << flag_keys, backup_enabled, sdk_key, debounce, file, perm, backups,
           second, remote, client, listeners, inflight, timer, timers, now,
           cyc, pc, idx, stop_event, hist >>

srcVars == << remote, client, listeners, inflight >>
mainVars == << pc, idx, stop_event >>

cfgVars == << flag_keys, backup_enabled, sdk_key, debounce >>
fsVars == << file, perm, backups >>
debVars == << timer, timers >>

(***************************************************************************)
(* The file writer.                                                        *)
(***************************************************************************)
\* dotenv.set_key(path, key, value, quote_mode="never") on the content text:
\* every line that binds key becomes key=value, the other lines are copied,
\* and key=value is appended when no line bound the key
SetKey(text, key, value) ==
    LET src == IF text = NoFile THEN <<>> ELSE text
        lines == SplitLines(src)
        line_out == key \o <<EQ>> \o value \o <<NL>>
        replaced == \E i \in 1 .. Len(lines) : LineKey(lines[i]) = key
        copied == Concat([i \in 1 .. Len(lines) |->
                     IF LineKey(lines[i]) = key THEN line_out ELSE lines[i]])
        missing_newline == src # <<>> /\ src[Len(src)] # NL
    IN  IF replaced THEN copied
        ELSE copied \o (IF missing_newline THEN <<NL>> ELSE <<>>) \o line_out

\* what a reader of the file gets for key: the value of the last line that
\* binds it (dotenv_values keeps the last binding), Absent when none does
RECURSIVE LookupLines(_, _)
LookupLines(lines, key) ==
    IF lines = <<>> THEN Absent
    ELSE LET last == lines[Len(lines)]
         IN  IF LineKey(last) = key /\ IndexOf(Chomp(last), EQ, 1) # 0
             THEN LineValue(last)
             ELSE LookupLines(SubSeq(lines, 1, Len(lines) - 1), key)

Lookup(text, key) ==
    IF text = NoFile THEN Absent ELSE LookupLines(SplitLines(text), key)

\* a backup whose path does not carry the timestamp
BackupEnvFileOnePath(bks, sec, text) == [bks EXCEPT ![0] = text]

\* backup_env_file: shutil.copy2(path, path.<timestamp>); the copy replaces
\* whatever the backup path held
BackupEnvFile(bks, sec, text) == [bks EXCEPT ![sec] = text]

(***************************************************************************)
(* The evaluator: one iteration of the loop of _evaluate_all_flags.        *)
(***************************************************************************)
\* an evaluation that drops the key whose evaluation raised
EvalKeyResultDropsFailed(values, key, raised, val) ==
    IF raised THEN values ELSE Append(values, <<key, val>>)

\* values[flag_key] = str(val), or "" when client.variation raised
EvalKeyResult(values, key, raised, val) ==
    Append(values, <<key, IF raised THEN Fallback ELSE val>>)

\* client.variation(flag_key, context, ""): the flag's value
Variation(key) == remote[key]

\* pc: the position in the cycle; i: the loop index; values: the snapshot;
\* seen, pre, bkfailed record what happened: each evaluation's outcome, the
\* file content write_env_values found, whether shutil.copy2 raised
IdleCycle == [pc |-> "idle", i |-> 0, values |-> <<>>, seen |-> <<>>,
              pre |-> NoFile, bkfailed |-> FALSE]

CycleOver(t) == cyc[t].pc \in {"idle", "returned", "raised", "skipped"}

(***************************************************************************)
(* _sync_all_flags_to_env on thread t, one step per library call.          *)
(***************************************************************************)
\* entry of _sync_all_flags_to_env and of _evaluate_all_flags
SyncBegin(t) ==
    /\ cyc' = [cyc EXCEPT ![t] = [IdleCycle EXCEPT !.pc = "eval", !.i = 1]]

\* one pass of the for loop of _evaluate_all_flags: evaluate flag_keys[i]
EvalKey(t) ==
    /\ cyc[t].pc = "eval"
    /\ cyc[t].i <= Len(flag_keys)
    /\ \E raised \in BOOLEAN :
         LET key == flag_keys[cyc[t].i]
             val == Variation(key)
         IN  cyc' = [cyc EXCEPT
                       ![t].values = EvalKeyResult(@, key, raised, val),
                       ![t].seen = Append(@, <<key, raised, val>>),
                       ![t].i = @ + 1]
    /\ UNCHANGED << cfgVars, fsVars, second, srcVars,
                    debVars, now, mainVars >>

\* return values; if not values: skip the write; else write_env_values(...)
EvalDone(t) ==
    /\ cyc[t].pc = "eval"
    /\ cyc[t].i > Len(flag_keys)
    /\ cyc' = [cyc EXCEPT
                 ![t].pc = IF cyc[t].values = <<>> THEN "skipped" ELSE "backup"]
    /\ UNCHANGED << cfgVars, fsVars, second, srcVars,
                    debVars, now, mainVars >>

\* if backup_enabled and os.path.exists(path): backup_env_file(path)
\* shutil.copy2 either copies or raises, and nothing catches what it raises
WriteBackup(t) ==
    /\ cyc[t].pc = "backup"
    /\ IF backup_enabled /\ file # NoFile
       THEN \/ /\ backups' = BackupEnvFile(backups, second, file)
               /\ cyc' = [cyc EXCEPT ![t].pc = "write", ![t].i = 1]
            \/ /\ cyc' = [cyc EXCEPT ![t].pc = "raised", ![t].bkfailed = TRUE]
               /\ UNCHANGED backups
       ELSE /\ cyc' = [cyc EXCEPT ![t].pc = "write", ![t].i = 1]
            /\ UNCHANGED backups
    /\ UNCHANGED << cfgVars, file, perm, second, srcVars,
                    debVars, now, mainVars >>

\* one pass of the for loop of write_env_values: set_key(path, key, value);
\* set_key replaces the file as a whole, or raises and leaves it as it was
WriteKey(t) ==
    /\ cyc[t].pc = "write"
    /\ cyc[t].i <= Len(cyc[t].values)
    /\ \/ /\ file' = SetKey(file, cyc[t].values[cyc[t].i][1],
                            cyc[t].values[cyc[t].i][2])
          /\ cyc' = [cyc EXCEPT ![t].i = @ + 1]
       \/ /\ cyc' = [cyc EXCEPT ![t].pc = "raised"]
          /\ UNCHANGED file
    /\ UNCHANGED << cfgVars, perm, backups, second, srcVars,
                    debVars, now, mainVars >>

\* the loop is over: ensure_file_permissions_owner_rw(path), i.e.
\* os.chmod(path, 0o600), whose failure is caught and logged; then return
WriteChmod(t) ==
    /\ cyc[t].pc = "write"
    /\ cyc[t].i > Len(cyc[t].values)
    /\ \/ perm' = "600"
       \/ UNCHANGED perm
    /\ cyc' = [cyc EXCEPT ![t].pc = "returned"]
    /\ UNCHANGED << cfgVars, file, backups, second, srcVars,
                    debVars, now, mainVars >>

\* the steps of a cycle; they leave the history alone
CycleStep(t) ==
    /\ \/ EvalKey(t)
       \/ EvalDone(t)
       \/ WriteBackup(t)
       \/ WriteKey(t)
       \/ WriteChmod(t)
    /\ UNCHANGED hist

(***************************************************************************)
(* The wall clock, which moves on its own.                                 *)
(***************************************************************************)
TrackedKeys == {KA, KB}

\* datetime.now() reaches the next second
SecondTick ==
    /\ second < MaxSecond
    /\ second' = second + 1
    /\ UNCHANGED << cfgVars, fsVars, srcVars, debVars, now,
                    cyc, mainVars, hist >>

InitHist == [calls |-> 0, bklog |-> <<>>, cancels |-> 0, changes |-> 0,
             stops |-> 0, teardown |-> <<>>, states |-> <<"CREATED">>,
             same |-> FALSE, initsync |-> "none"]

(***************************************************************************)
(* SpecPersist: one caller runs write_env_values again and again with any  *)
(* snapshot of the tracked keys; no other thread touches the file.         *)
(***************************************************************************)
\* the snapshots _evaluate_all_flags can hand over for a key list
Snapshots(keys) ==
    { [i \in 1 .. Len(keys) |-> <<keys[i], f[i]>>] :
        f \in { g \in [1 .. Len(keys) -> Values] :
                   \A i \in 1 .. Len(keys) : g[i] \in ValuesOf(keys[i]) } }

InitPersist ==
    /\ flag_keys \in KeyLists \ {<<>>}
    /\ backup_enabled \in BOOLEAN
    /\ sdk_key = TRUE
    /\ debounce = 0
    /\ file \in InitialFiles
    /\ perm = "other"
    /\ backups = [s \in 0 .. MaxSecond |-> NoFile]
    /\ second = 0
    /\ remote = [k \in TrackedKeys |-> VX]
    /\ client = "open"
    /\ listeners = {}
    /\ inflight = 0
    /\ timer = 0
    /\ timers = <<>>
    /\ now = 0
    /\ cyc = [t \in Threads |-> IdleCycle]
    /\ pc = "caller"
    /\ idx = 0
    /\ stop_event = FALSE
    /\ hist = InitHist

\* the caller calls write_env_values(path, values, backup_enabled); the
\* history notes whether the snapshot is the one of the persist that has
\* just returned
PersistCall ==
    /\ CycleOver(0)
    /\ hist.calls < MaxPersists
    /\ \E values \in Snapshots(flag_keys) :
         /\ cyc' = [cyc EXCEPT ![0] = [IdleCycle EXCEPT !.pc = "backup",
                                                        !.values = values,
                                                        !.pre = file]]
         /\ hist' = [hist EXCEPT
                       !.calls = @ + 1,
                       !.same = (cyc[0].pc = "returned"
                                 /\ cyc[0].values = values)]
    /\ UNCHANGED << cfgVars, fsVars, second, srcVars,
                    debVars, now, mainVars >>

\* the backup step of the caller's persist; the history logs each copy made:
\* the content copied and the second that names the artifact
PersistBackup ==
    /\ WriteBackup(0)
    /\ hist' = IF backup_enabled /\ file # NoFile /\ cyc'[0].pc = "write"
               THEN [hist EXCEPT
                       !.bklog = Append(@, [pre |-> file, ts |-> second])]
               ELSE hist

PersistStep ==
    \/ PersistBackup
    \/ /\ \/ WriteKey(0)
          \/ WriteChmod(0)
       /\ UNCHANGED hist

NextPersist ==
    \/ PersistCall
    \/ PersistStep
    \/ SecondTick

SpecPersist == InitPersist /\ [][NextPersist]_vars

(***************************************************************************)
(* The Debouncer.  trigger() and cancel() run under self._lock, so each is *)
(* one step.  A threading.Timer waits for its interval on its own thread   *)
(* and then, unless cancel() has set its finished event, calls _run; it    *)
(* wakes at or after its deadline, never before.                           *)
(***************************************************************************)
\* st: "waiting" (started, in finished.wait), "cancelled", "running" (in
\* _run), "done"; start: the tick of the trigger() that created it; fired:
\* the tick at which _run began (-1: not yet); by: who cancelled it;
\* res: how the action ended
NewTimer(tick) == [st |-> "waiting", start |-> tick, fired |-> -1,
                   by |-> "none", res |-> "none"]

\* a cancel that also stops a timer whose function has begun to run
TimerCancelAlsoRunning(tms, id, who) ==
    [tms EXCEPT ![id].st = "cancelled", ![id].by = who]

\* Timer.cancel(): sets the finished event, which stops a timer that still
\* waits and does nothing to one that has already begun to run
TimerCancel(tms, id, who) ==
    IF tms[id].st = "waiting"
    THEN [tms EXCEPT ![id].st = "cancelled", ![id].by = who]
    ELSE tms

\* trigger() without the cancel of the pending timer
TriggerTimersNoCancel(tms, slot, tick) == Append(tms, NewTimer(tick))

\* Debouncer.trigger: cancel the pending timer, create and start a new one
TriggerTimers(tms, slot, tick) ==
    Append(IF slot # 0 THEN TimerCancel(tms, slot, "trigger") ELSE tms,
           NewTimer(tick))

\* a cancel() that clears the slot and leaves the pending timer alone
CancelTimersKeepsPending(tms, slot) == tms

\* Debouncer.cancel: cancel the pending timer and clear the slot
CancelTimers(tms, slot) ==
    IF slot # 0 THEN TimerCancel(tms, slot, "cancel") ELSE tms

\* the interval of Timer id has elapsed and its finished event is not set
TimerDue(id) ==
    /\ id \in 1 .. Len(timers)
    /\ timers[id].st = "waiting"
    /\ now >= timers[id].start + debounce

\* a _run in which a failed action never comes to its end
AfterActionFailureSticks(tms, id, res) ==
    IF res = "failed" THEN [tms EXCEPT ![id].res = res]
    ELSE [tms EXCEPT ![id].st = "done", ![id].res = res]

\* _run: try: self._action() except Exception: logging.exception(...); the
\* function of the timer returns either way
AfterAction(tms, id, res) == [tms EXCEPT ![id].st = "done", ![id].res = res]

\* a trigger() that starts the new timer and does not store it in the slot
TriggerForgetsTimer ==
    /\ Len(timers) < MaxTimers
    /\ now + debounce <= MaxTime
    /\ timers' = TriggerTimers(timers, timer, now)
    /\ timer' = timer

\* a trigger() call, from any thread
Trigger ==
    /\ Len(timers) < MaxTimers
    /\ now + debounce <= MaxTime
    /\ timers' = TriggerTimers(timers, timer, now)
    /\ timer' = Len(timers) + 1

\* a cancel() call, from any thread
Cancel ==
    /\ timers' = CancelTimers(timers, timer)
    /\ timer' = 0

\* the clock of the timers advances
Tick ==
    /\ now < MaxTime
    /\ now' = now + 1
    /\ UNCHANGED << cfgVars, fsVars, second, srcVars,
                    debVars, cyc, mainVars, hist >>

(***************************************************************************)
(* SpecDebounce: a Debouncer on its own, with any action: the action runs  *)
(* for any time on the thread of its timer and returns or raises.          *)
(***************************************************************************)
InitDebounce ==
    /\ flag_keys = <<KA>>
    /\ backup_enabled = FALSE
    /\ sdk_key = TRUE
    /\ debounce \in DebounceChoices
    /\ file = NoFile
    /\ perm = "other"
    /\ backups = [s \in 0 .. MaxSecond |-> NoFile]
    /\ second = 0
    /\ remote = [k \in TrackedKeys |-> VX]
    /\ client = "open"
    /\ listeners = {}
    /\ inflight = 0
    /\ timer = 0
    /\ timers = <<>>
    /\ now = 0
    /\ cyc = [t \in Threads |-> IdleCycle]
    /\ pc = "caller"
    /\ idx = 0
    /\ stop_event = FALSE
    /\ hist = InitHist

DebTrigger ==
    /\ Trigger
    /\ UNCHANGED << cfgVars, fsVars, second, srcVars, now,
                    cyc, mainVars, hist >>

DebCancel ==
    /\ hist.cancels < MaxCancels
    /\ Cancel
    /\ hist' = [hist EXCEPT !.cancels = @ + 1]
    /\ UNCHANGED << cfgVars, fsVars, second, srcVars, now,
                    cyc, mainVars >>

\* Timer.run: the wait is over and finished is not set: call _run, which
\* calls the action
DebExpire(id) ==
    /\ TimerDue(id)
    /\ timers' = [timers EXCEPT ![id].st = "running", ![id].fired = now]
    /\ UNCHANGED << cfgVars, fsVars, second, srcVars, timer,
                    now, cyc, mainVars, hist >>

\* _run: the action returns, or raises and the exception is logged
DebActionEnd(id) ==
    /\ id \in 1 .. Len(timers)
    /\ timers[id].st = "running"
    /\ \E res \in {"ok", "failed"} : timers' = AfterAction(timers, id, res)
    /\ UNCHANGED << cfgVars, fsVars, second, srcVars, timer,
                    now, cyc, mainVars, hist >>

NextDebounce ==
    \/ DebTrigger
    \/ DebCancel
    \/ Tick
    \/ \E id \in 1 .. MaxTimers : DebExpire(id)
    \/ \E id \in 1 .. MaxTimers : DebActionEnd(id)

SpecDebounce == InitDebounce /\ [][NextDebounce]_vars

\* the scheduler runs every thread and time passes: a timer whose interval
\* has elapsed wakes up, and an action that runs comes to its end
FairDebounce ==
    /\ WF_vars(Tick)
    /\ \A id \in 1 .. MaxTimers : WF_vars(DebExpire(id))
    /\ \A id \in 1 .. MaxTimers : WF_vars(DebActionEnd(id))

SpecDebounceFair == SpecDebounce /\ FairDebounce

(***************************************************************************)
(* Spec: the daemon.  The control thread runs start(); the flag source     *)
(* changes flag values and delivers a notification per change of a key     *)
(* with a listener, on its own thread; each Timer runs the debounced       *)
(* action _sync_all_flags_to_env on its own thread.  The debounce interval *)
(* is 0 here, so a timer may wake at any moment after its trigger.         *)
(***************************************************************************)
\* the values the flags move between while the daemon runs
DaemonValues == {VX, VY}

Init ==
    /\ flag_keys = <<KA>>
    /\ backup_enabled \in BOOLEAN
    /\ sdk_key \in BOOLEAN
    /\ debounce = 0
    /\ file \in {NoFile, KA \o <<EQ>> \o VY \o <<NL>> \o KF \o <<EQ>> \o VX \o <<NL>>}
    /\ perm = "other"
    /\ backups = [s \in 0 .. MaxSecond |-> NoFile]
    /\ second = 0
    /\ remote = [k \in TrackedKeys |-> VX]
    /\ client = "none"
    /\ listeners = {}
    /\ inflight = 0
    /\ timer = 0
    /\ timers = <<>>
    /\ now = 0
    /\ cyc = [t \in Threads |-> IdleCycle]
    /\ pc = "created"
    /\ idx = 0
    /\ stop_event = FALSE
    /\ hist = InitHist

\* the process runs: it has neither exited nor died
Alive == pc \notin {"exit2", "crashed", "exited"}

\* a credential check that lets a blank key pass
CredentialNeverMissing(key) == FALSE

\* if not self._config.sdk_key
CredentialMissing(key) == ~key

\* the status the process ends with: sys.exit(2) of the credential check, 0
\* when main() returns, 1 when an exception leaves main(); -1 while it runs
ExitStatus(p) ==
    CASE p = "exit2" -> 2
      [] p = "exited" -> 0
      [] p = "crashed" -> 1
      [] OTHER -> -1

\* start(): the credential check, then ldclient.set_config and ldclient.get
Start ==
    /\ pc = "created"
    /\ IF CredentialMissing(sdk_key)
       THEN /\ pc' = "exit2"
            /\ hist' = [hist EXCEPT !.states = Append(@, "FATAL")]
            /\ UNCHANGED client
       ELSE /\ pc' = "waitinit"
            /\ client' = "open"
            /\ hist' = [hist EXCEPT !.states = Append(@, "INITIALIZING")]
    /\ UNCHANGED << cfgVars, fsVars, second, remote, listeners, inflight,
                    debVars, now, cyc, idx, stop_event >>

\* a start() that goes from the readiness wait straight to the listeners
AfterWaitRegisters == "register"

\* start(): after _wait_for_initialization comes the initial sync
AfterWait == "initsync"

\* one pass of the loop of _wait_for_initialization: is_initialized() is
\* true, or false, or raises; the loop gives up after max_wait_seconds
WaitInit ==
    /\ pc = "waitinit"
    /\ \/ /\ pc' = AfterWait
          /\ idx' = 0
       \/ /\ idx < MaxWaits
          /\ idx' = idx + 1
          /\ UNCHANGED pc
       \/ /\ idx >= MaxWaits
          /\ pc' = AfterWait
          /\ idx' = 0
    /\ UNCHANGED << cfgVars, fsVars, second, srcVars, debVars, now, cyc,
                    stop_event, hist >>

\* start() calls self._sync_all_flags_to_env()
InitSyncCall ==
    /\ pc = "initsync"
    /\ SyncBegin(0)
    /\ pc' = "syncing"
    /\ UNCHANGED << cfgVars, fsVars, second, srcVars, debVars, now, idx,
                    stop_event, hist >>

InitSyncStep ==
    /\ pc = "syncing"
    /\ CycleStep(0)

\* where start() goes on when the initial sync is over: what the sync raised
\* is caught nowhere and ends start(), main() and the process
AfterInitSync(raised) == IF raised THEN "crashed" ELSE "register"

InitSyncReturn ==
    /\ pc = "syncing"
    /\ CycleOver(0)
    /\ pc' = AfterInitSync(cyc[0].pc = "raised")
    /\ idx' = 0
    /\ hist' = [hist EXCEPT
                  !.states = IF cyc[0].pc = "raised"
                             THEN Append(@, "CRASHED") ELSE @,
                  !.initsync = cyc[0].pc]
    /\ cyc' = [cyc EXCEPT ![0] = IdleCycle]
    /\ UNCHANGED << cfgVars, fsVars, second, srcVars, debVars, now,
                    stop_event >>

\* _register_flag_listeners: self._client.flag_tracker, which may raise
RegisterTracker ==
    /\ pc = "register"
    /\ idx = 0
    /\ \/ /\ idx' = 1
          /\ UNCHANGED << pc, hist >>
       \/ /\ pc' = "listening"
          /\ hist' = [hist EXCEPT !.states = Append(@, "LISTENING")]
          /\ UNCHANGED idx
    /\ UNCHANGED << cfgVars, fsVars, second, srcVars, debVars, now, cyc,
                    stop_event >>

\* one pass of the loop: add_flag_value_change_listener, which may raise
RegisterKey ==
    /\ pc = "register"
    /\ idx >= 1
    /\ idx <= Len(flag_keys)
    /\ \/ listeners' = listeners \cup {flag_keys[idx]}
       \/ UNCHANGED listeners
    /\ idx' = idx + 1
    /\ UNCHANGED << cfgVars, fsVars, second, remote, client, inflight,
                    debVars, now, cyc, pc, stop_event, hist >>

\* the loop is over; start() enters _run_loop, which installs the handlers
RegisterDone ==
    /\ pc = "register"
    /\ idx > Len(flag_keys)
    /\ pc' = "listening"
    /\ hist' = [hist EXCEPT !.states = Append(@, "LISTENING")]
    /\ UNCHANGED << cfgVars, fsVars, second, srcVars, debVars, now, cyc, idx,
                    stop_event >>

\* a loop that never looks at the stop flag
LoopGoesOnForEver(event) == TRUE

\* while not self._stop_event.is_set(): the loop goes on
LoopGoesOn(event) == ~event

\* _run_loop sees the stop flag set and leaves the loop for _shutdown
RunLoopExit ==
    /\ pc = "listening"
    /\ ~LoopGoesOn(stop_event)
    /\ pc' = "stopping"
    /\ hist' = [hist EXCEPT !.states = Append(@, "STOPPING")]
    /\ UNCHANGED << cfgVars, fsVars, second, srcVars, debVars, now, cyc, idx,
                    stop_event >>

\* stop(), called directly or by handle_signal: self._stop_event.set()
StopCall ==
    /\ Alive
    /\ pc # "created"
    /\ hist.stops < MaxStops
    /\ stop_event' = TRUE
    /\ hist' = [hist EXCEPT !.stops = @ + 1]
    /\ UNCHANGED << cfgVars, fsVars, second, srcVars, debVars, now, cyc, pc,
                    idx >>

\* _shutdown: self._debouncer.cancel()
ShutdownCancel ==
    /\ pc = "stopping"
    /\ Cancel
    /\ pc' = "closing"
    /\ hist' = [hist EXCEPT !.teardown = Append(@, "cancel")]
    /\ UNCHANGED << cfgVars, fsVars, second, srcVars, now, cyc, idx,
                    stop_event >>

\* _shutdown: self._client.close(), whose exception is swallowed
ShutdownClose ==
    /\ pc = "closing"
    /\ client' = "closed"
    /\ pc' = "stopped"
    /\ hist' = [hist EXCEPT !.teardown = Append(@, "close"),
                            !.states = Append(@, "STOPPED")]
    /\ UNCHANGED << cfgVars, fsVars, second, remote, listeners, inflight,
                    debVars, now, cyc, idx, stop_event >>

\* start() and main() return and the interpreter exits; the Timer threads
\* are daemon threads and end with it, wherever they are
ProcessExit ==
    /\ pc = "stopped"
    /\ pc' = "exited"
    /\ UNCHANGED << cfgVars, fsVars, second, srcVars, debVars, now, cyc, idx,
                    stop_event, hist >>

\* the flag source: the value of a flag changes; a key with a listener gets
\* a notification, which the source delivers on a thread of its own
RemoteChange ==
    /\ Alive
    /\ hist.changes < MaxChanges
    /\ \E i \in 1 .. Len(flag_keys), v \in DaemonValues :
         LET k == flag_keys[i] IN
         /\ remote[k] # v
         /\ remote' = [remote EXCEPT ![k] = v]
         /\ inflight' = IF k \in listeners /\ client = "open"
                        THEN inflight + 1 ELSE inflight
    /\ hist' = [hist EXCEPT !.changes = @ + 1]
    /\ UNCHANGED << cfgVars, fsVars, second, client, listeners, debVars, now,
                    cyc, mainVars >>

\* on_value_change(_event): self._debouncer.trigger()
OnValueChange ==
    /\ Alive
    /\ inflight > 0
    /\ inflight' = inflight - 1
    /\ Trigger
    /\ UNCHANGED << cfgVars, fsVars, second, remote, client, listeners, now,
                    cyc, mainVars, hist >>

\* Timer.run on the thread of Timer id: the wait is over and finished is not
\* set: _run calls self._action(), i.e. _sync_all_flags_to_env
TimerFire(id) ==
    /\ Alive
    /\ TimerDue(id)
    /\ timers' = [timers EXCEPT ![id].st = "running", ![id].fired = now]
    /\ SyncBegin(id)
    /\ UNCHANGED << cfgVars, fsVars, second, srcVars, timer, now, mainVars,
                    hist >>

ActionStep(id) ==
    /\ Alive
    /\ id \in 1 .. Len(timers)
    /\ timers[id].st = "running"
    /\ CycleStep(id)

\* _run: the action has returned, or has raised and the exception is logged
ActionEnd(id) ==
    /\ Alive
    /\ id \in 1 .. Len(timers)
    /\ timers[id].st = "running"
    /\ CycleOver(id)
    /\ cyc[id].pc # "idle"
    /\ timers' = AfterAction(timers, id,
                             IF cyc[id].pc = "raised" THEN "failed" ELSE "ok")
    /\ cyc' = [cyc EXCEPT ![id] = IdleCycle]
    /\ UNCHANGED << cfgVars, fsVars, second, srcVars, timer, now,
                    mainVars, hist >>

ControlStep ==
    \/ Start
    \/ WaitInit
    \/ InitSyncCall
    \/ InitSyncStep
    \/ InitSyncReturn
    \/ RegisterTracker
    \/ RegisterKey
    \/ RegisterDone
    \/ RunLoopExit
    \/ ShutdownCancel
    \/ ShutdownClose
    \/ ProcessExit

Next ==
    \/ ControlStep
    \/ StopCall
    \/ RemoteChange
    \/ OnValueChange
    \/ \E id \in 1 .. MaxTimers : TimerFire(id)
    \/ \E id \in 1 .. MaxTimers : ActionStep(id)
    \/ \E id \in 1 .. MaxTimers : ActionEnd(id)

Spec == Init /\ [][Next]_vars

\* the control thread is scheduled: every step of start() it can take, it
\* takes in the end
FairControl == WF_vars(ControlStep)

SpecFair == Spec /\ FairControl

\* every thread is scheduled: the control thread, the thread of the flag
\* source that delivers the notifications, and the thread of each timer
FairThreads ==
    /\ WF_vars(ControlStep)
    /\ WF_vars(OnValueChange)
    /\ \A id \in 1 .. MaxTimers :
           /\ WF_vars(TimerFire(id))
           /\ WF_vars(ActionStep(id))
           /\ WF_vars(ActionEnd(id))

SpecLive == Spec /\ FairThreads

(***************************************************************************)
(* SpecEval: one caller runs _evaluate_all_flags again and again while the *)
(* flag values change under it.                                            *)
(***************************************************************************)
InitEval ==
    /\ flag_keys \in KeyLists \cup {<<KB, KA>>}
    /\ backup_enabled = FALSE
    /\ sdk_key = TRUE
    /\ debounce = 0
    /\ file = NoFile
    /\ perm = "other"
    /\ backups = [s \in 0 .. MaxSecond |-> NoFile]
    /\ second = 0
    /\ remote \in [TrackedKeys -> {VX, VY}]
    /\ client = "open"
    /\ listeners = {}
    /\ inflight = 0
    /\ timer = 0
    /\ timers = <<>>
    /\ now = 0
    /\ cyc = [t \in Threads |-> IdleCycle]
    /\ pc = "caller"
    /\ idx = 0
    /\ stop_event = FALSE
    /\ hist = InitHist

\* the caller calls _evaluate_all_flags()
EvalCall ==
    /\ cyc[0].pc \in {"idle", "backup", "skipped"}
    /\ SyncBegin(0)
    /\ UNCHANGED << cfgVars, fsVars, second, srcVars, debVars, now, mainVars,
                    hist >>

EvalLoop ==
    /\ EvalKey(0)
    /\ UNCHANGED hist

EvalReturn ==
    /\ EvalDone(0)
    /\ UNCHANGED hist

\* the value of a flag changes at the source
EvalRemoteChange ==
    /\ \E k \in TrackedKeys, v \in Values :
         /\ v \in ValuesOf(k)
         /\ remote[k] # v
         /\ remote' = [remote EXCEPT ![k] = v]
    /\ UNCHANGED << cfgVars, fsVars, second, client, listeners, inflight,
                    debVars, now, cyc, mainVars, hist >>

NextEval ==
    \/ EvalCall
    \/ EvalLoop
    \/ EvalReturn
    \/ EvalRemoteChange

SpecEval == InitEval /\ [][NextEval]_vars

(***************************************************************************)
(* Properties of the Debouncer.  Timer i is the one trigger() call i made, *)
(* so timers[i].start is the time of that call.                            *)
(***************************************************************************)
\* trigger i + 1 came less than the interval after trigger i
SameBurst(i) ==
    /\ i < Len(timers)
    /\ timers[i + 1].start - timers[i].start < debounce

\* triggers i .. j are a burst: the longest run of calls each less than the
\* interval after the one before
IsBurst(i, j) ==
    /\ 1 <= i /\ i <= j /\ j <= Len(timers)
    /\ \A k \in i .. (j - 1) : SameBurst(k)
    /\ i = 1 \/ ~SameBurst(i - 1)
    /\ ~SameBurst(j)

\* no cancel() call cancelled a timer of the burst
CancelFree(i, j) == \A k \in i .. j : timers[k].by # "cancel"

Executed(k) == timers[k].fired >= 0

TimerSt(id) == IF id <= Len(timers) THEN timers[id].st ELSE "absent"

BurstExecutions(i, j) == { k \in i .. j : Executed(k) }

\* a burst executes at most once, and no earlier than the interval after
\* its last trigger
BurstCoalesced ==
    \A i, j \in 1 .. Len(timers) :
        (IsBurst(i, j) /\ CancelFree(i, j))
        => /\ Cardinality(BurstExecutions(i, j)) <= 1
           /\ \A k \in i .. j :
                  Executed(k) => timers[k].fired >= timers[j].start + debounce

\* C1 as stated: every burst of trigger() calls with no cancel() executes
\* the action exactly once, no earlier than the interval after its last
\* trigger: in particular its execution is never given up
C1_BurstExecutesExactlyOnce ==
    /\ BurstCoalesced
    /\ \A i, j \in 1 .. Len(timers) :
           (IsBurst(i, j) /\ CancelFree(i, j)) => timers[j].st # "cancelled"

\* C1 amended: a burst executes at most once and no earlier than the
\* interval after its last trigger, and the timer of its last trigger does
\* fire unless a later trigger() or a cancel() cancels it first
C1_BurstCoalescing ==
    /\ []BurstCoalesced
    /\ \A id \in 1 .. MaxTimers :
           (TimerSt(id) = "waiting")
           ~> (TimerSt(id) \in {"running", "done", "cancelled"})

\* a burst of two or more triggers has executed, once, by its last timer
C1_Witness ==
    \E i, j \in 1 .. Len(timers) :
        /\ i < j
        /\ IsBurst(i, j)
        /\ CancelFree(i, j)
        /\ BurstExecutions(i, j) = {j}
        /\ timers[j].st = "done"

(***************************************************************************)
(* Properties of Debouncer.cancel.  A scheduled action is pending while    *)
(* its Timer is in its waiting stage.                                      *)
(***************************************************************************)
\* the step is a cancel() call of the Debouncer's user
IsCancelCall == hist'.cancels # hist.cancels

\* the timer in the slot is still in its waiting stage
Pending == timer # 0 /\ timers[timer].st = "waiting"

\* a cancel() call with an action pending cancels the timer of that action
CancelDiscardsPending ==
    (IsCancelCall /\ Pending) => timers'[timer].st = "cancelled"

\* a cancelled timer stays cancelled
CancelledForGood ==
    \A id \in 1 .. Len(timers) :
        timers[id].st = "cancelled" => timers'[id].st = "cancelled"

\* a cancelled timer has not run the action
CancelledNeverRan ==
    \A id \in 1 .. Len(timers) :
        timers[id].st = "cancelled"
        => (timers[id].fired = -1 /\ timers[id].res = "none")

\* a cancel() call with nothing pending changes no timer and leaves no
\* action scheduled, as a cancel() call after a cancel() call does
CancelIdempotent ==
    (IsCancelCall /\ ~Pending)
    => (timers' = timers /\ timer' = 0
        /\ CancelTimers(timers', timer') = timers')

\* a trigger() call schedules the action, whatever came before it: the new
\* timer is in the slot, in its waiting stage, started now
TriggerSchedules ==
    Len(timers') > Len(timers)
    => /\ Len(timers') = Len(timers) + 1
       /\ timer' = Len(timers')
       /\ timers'[timer'] = NewTimer(now)

\* C11: a cancel() call while a scheduled action is pending discards that
\* action, which is never run; cancel() is idempotent: a second cancel(), or
\* a cancel() with nothing pending, changes nothing, and a later trigger()
\* schedules the action as usual
C11_CancelDiscards ==
    /\ []CancelledNeverRan
    /\ [][CancelDiscardsPending]_vars
    /\ [][CancelledForGood]_vars
    /\ [][CancelIdempotent]_vars
    /\ [][TriggerSchedules]_vars

\* a pending action was cancelled, cancel() was called a second time, and
\* the trigger() that followed has scheduled and run the action
C11_Witness ==
    /\ Len(timers) >= 2
    /\ timers[1].by = "cancel"
    /\ timers[1].fired = -1
    /\ hist.cancels = 2
    /\ timer = 2
    /\ timers[2].st = "done"
    /\ timers[2].by = "none"

(***************************************************************************)
(* Properties of trigger sequences a debounce interval or more apart.      *)
(***************************************************************************)
\* trigger j + 1 came the interval or more after trigger j: trigger j ends
\* a sequence and trigger j + 1 begins the next one
SeparatedPair(j) ==
    /\ j < Len(timers)
    /\ timers[j + 1].start - timers[j].start >= debounce

\* C12 as stated: sequences the interval or more apart are never merged:
\* the first trigger of the second sequence never cancels the timer of the
\* first sequence, whose execution would then be lost
C12_SequencesNeverMerged ==
    \A j \in 1 .. Len(timers) :
        SeparatedPair(j) => timers[j].by # "trigger"

\* the timer that ends a sequence either had fired, the interval or more
\* after its trigger, when the next sequence began, and then it is left
\* alone; or it was still in its waiting stage, and then the first trigger
\* of the next sequence has cancelled it and it never runs
SeparatedPairOutcome(j) ==
    \/ /\ timers[j].by = "none"
       /\ Executed(j)
       /\ timers[j].fired >= timers[j].start + debounce
       /\ timers[j].fired <= timers[j + 1].start
       /\ timers[j].st \in {"running", "done"}
    \/ /\ timers[j].by = "trigger"
       /\ ~Executed(j)
       /\ timers[j].st = "cancelled"

\* C12 amended: of two sequences the interval or more apart, each executes
\* the action once when the timer of the first has fired before the second
\* begins; when it has not, the second sequence cancels it and the two are
\* merged; and a timer that is never cancelled does fire
C12_SeparateSequences ==
    /\ [](\A j \in 1 .. Len(timers) :
             (SeparatedPair(j) /\ timers[j].by # "cancel")
             => SeparatedPairOutcome(j))
    /\ \A id \in 1 .. MaxTimers :
           []<>(TimerSt(id) # "waiting")

\* two sequences a positive interval apart have both executed, the first
\* before the second began
C12_Witness ==
    /\ debounce > 0
    /\ Len(timers) >= 2
    /\ SeparatedPair(1)
    /\ timers[1].st = "done"
    /\ timers[1].fired <= timers[2].start
    /\ timers[2].st = "done"
    /\ timers[2].fired >= timers[2].start + debounce

(***************************************************************************)
(* Properties of a debounced action that fails.                            *)
(***************************************************************************)
Failed == { id \in 1 .. Len(timers) : timers[id].res = "failed" }

\* an action that has failed has come to its end: _run has logged the
\* exception and returned
FailureAbsorbed == \A id \in Failed : timers[id].st = "done"

\* the step in which an action fails changes that timer and nothing else:
\* the slot, the other timers and their callers are as before
FailureStaysInRun ==
    \A id \in 1 .. Len(timers) :
        (timers[id].res # "failed" /\ timers'[id].res = "failed")
        => /\ timer' = timer
           /\ Len(timers') = Len(timers)
           /\ \A k \in 1 .. Len(timers) : k # id => timers'[k] = timers[k]
           /\ UNCHANGED << cfgVars, fsVars, second, srcVars, now, cyc,
                           mainVars, hist >>

\* a trigger() call after a failure schedules the action as any other
TriggerAfterFailure ==
    (Failed # {} /\ Len(timers') > Len(timers))
    => /\ timer' = Len(timers')
       /\ timers'[timer'] = NewTimer(now)

\* C17: when an execution of the debounced action raises, the Debouncer
\* stays usable: the failure stays in _run and reaches no caller of
\* trigger(), and a later trigger() schedules the action again, which runs
\* the interval later (unless a trigger() or cancel() cancels it)
C17_FailureKeepsDebouncerUsable ==
    /\ []FailureAbsorbed
    /\ [][FailureStaysInRun]_vars
    /\ [][TriggerAfterFailure]_vars
    /\ [](\A id \in 1 .. Len(timers) :
             Executed(id) => timers[id].fired >= timers[id].start + debounce)
    /\ \A id \in 1 .. MaxTimers :
           []<>(Failed # {} => TimerSt(id) # "waiting")

\* an execution failed, and the trigger() after it has run the action again
C17_Witness ==
    /\ Len(timers) >= 2
    /\ timers[1].res = "failed"
    /\ timers[2].st = "done"
    /\ timers[2].res = "ok"
    /\ timers[2].start >= timers[1].fired
    /\ timers[2].fired >= timers[2].start + debounce

(***************************************************************************)
(* The timers of the Debouncer.                                            *)
(***************************************************************************)
\* the timers that are live: started, not cancelled, not yet fired
Live == { id \in 1 .. Len(timers) : timers[id].st = "waiting" }

\* C20: in every state of the Debouncer, whatever the order of the
\* trigger() and cancel() calls, at most one timer is live, and a live timer
\* is the one the _timer slot refers to
C20_OneLiveTimer ==
    /\ Cardinality(Live) <= 1
    /\ timer \in 0 .. Len(timers)
    /\ \A id \in Live : id = timer

\* a second trigger() has cancelled the timer of the first, and its own
\* timer is live and in the slot
C20_Witness ==
    /\ Len(timers) >= 2
    /\ timers[1].by = "trigger"
    /\ Live = {2}
    /\ timer = 2
    /\ hist.cancels >= 1

(***************************************************************************)
(* Properties of the file writer.                                          *)
(***************************************************************************)
FileKeys == {KA, KB, KF}

RECURSIVE WriteAll(_, _)
\* the content a whole run of the loop of write_env_values leaves
WriteAll(text, values) ==
    IF values = <<>> THEN text
    ELSE WriteAll(SetKey(text, Head(values)[1], Head(values)[2]), Tail(values))

InPersist(t) == cyc[t].pc \in {"backup", "write", "returned", "raised"}

\* a reader sees for every key of the snapshot the value it had before
ShowsOld(t) ==
    \A i \in 1 .. Len(cyc[t].values) :
        Lookup(file, cyc[t].values[i][1]) = Lookup(cyc[t].pre, cyc[t].values[i][1])

\* a reader sees for every key of the snapshot what the finished persist shows
ShowsNew(t) ==
    \A i \in 1 .. Len(cyc[t].values) :
        Lookup(file, cyc[t].values[i][1]) =
            Lookup(WriteAll(cyc[t].pre, cyc[t].values), cyc[t].values[i][1])

\* C3: a persist is atomic: at every moment from its call on, also where a
\* crash would stop it, the file shows for the keys of the snapshot either
\* all their values from before the persist or all the values the finished
\* persist gives them, never some of each
C3_PersistAtomic ==
    InPersist(0) => (ShowsOld(0) \/ ShowsNew(0))

\* the file binds every key of the snapshot to exactly the snapshot's value
HoldsSnapshot(t) ==
    \A i \in 1 .. Len(cyc[t].values) :
        Lookup(file, cyc[t].values[i][1]) = cyc[t].values[i][2]

\* every key bound before the call and not in the snapshot is bound as before
KeepsOtherKeys(t) ==
    \A k \in FileKeys :
        (/\ \A i \in 1 .. Len(cyc[t].values) : cyc[t].values[i][1] # k
         /\ Lookup(cyc[t].pre, k) # Absent)
        => Lookup(file, k) = Lookup(cyc[t].pre, k)

\* C4: when write_env_values has returned, the file maps every key of the
\* snapshot to exactly the snapshot's value, and every other key the file had
\* before the call still has its prior value
C4_WriteFrame ==
    cyc[0].pc = "returned" => (HoldsSnapshot(0) /\ KeepsOtherKeys(0))

\* C6: when backups are enabled and the file existed with content C before a
\* persist, then once the persist has returned a backup artifact holds
\* exactly C and the live file holds the values of the new snapshot
C6_BackupThenWrite ==
    (cyc[0].pc = "returned" /\ backup_enabled /\ cyc[0].pre # NoFile)
    => (/\ \E s \in DOMAIN backups : backups[s] = cyc[0].pre
        /\ HoldsSnapshot(0))

\* the backup half of C6 on its own
BackupHoldsPrior ==
    (cyc[0].pc = "returned" /\ backup_enabled /\ cyc[0].pre # NoFile)
    => \E s \in DOMAIN backups : backups[s] = cyc[0].pre

\* the frame of C4 for snapshots whose values are one line each
WriteFrameOneLine ==
    (cyc[0].pc = "returned"
     /\ \A i \in 1 .. Len(cyc[0].values) : IndexOf(cyc[0].values[i][2], NL, 1) = 0)
    => (HoldsSnapshot(0) /\ KeepsOtherKeys(0))

\* C13: persisting the same snapshot twice in a row leaves the live file as
\* persisting it once does: the second persist returns with the content the
\* first one left
C13_PersistTwiceSameAsOnce ==
    (cyc[0].pc = "returned" /\ hist.same) => file = cyc[0].pre

\* C13 for snapshots whose values are one line each
PersistTwiceOneLine ==
    (/\ cyc[0].pc = "returned"
     /\ hist.same
     /\ \A i \in 1 .. Len(cyc[0].values) : IndexOf(cyc[0].values[i][2], NL, 1) = 0)
    => file = cyc[0].pre

\* C8: a backup copy that fails does not block the write: the persist it
\* fails in still writes the keys and returns
C8_BackupFailureDoesNotBlock ==
    \A t \in Threads :
        (cyc[t].bkfailed /\ CycleOver(t)) => cyc[t].pc = "returned"

BackupArtifacts == { s \in DOMAIN backups : backups[s] # NoFile }
BackupSeconds == { hist.bklog[i].ts : i \in 1 .. Len(hist.bklog) }

\* C7 as stated: every persist that backs up has its own artifact, which no
\* later persist overwrites: after k of them there are k artifacts, each
\* holding the content from before its own write
C7_OneBackupPerPersist ==
    /\ Cardinality(BackupArtifacts) = Len(hist.bklog)
    /\ \A i \in 1 .. Len(hist.bklog) :
           backups[hist.bklog[i].ts] = hist.bklog[i].pre

\* C7 amended: an artifact is named by the second of its copy; it is never
\* overwritten by a persist of another second, so the artifacts are as many
\* as the seconds in which a backup was taken, and the artifact of a second
\* holds the content from before the last write of that second
C7_OneBackupPerSecond ==
    /\ Cardinality(BackupArtifacts) = Cardinality(BackupSeconds)
    /\ \A i \in 1 .. Len(hist.bklog) :
           (\A j \in (i + 1) .. Len(hist.bklog) :
                hist.bklog[j].ts # hist.bklog[i].ts)
           => backups[hist.bklog[i].ts] = hist.bklog[i].pre

\* two persists of different seconds and different prior contents have both
\* left their backup, and a third backup shared a second with an earlier one
C7_Witness ==
    \E i, j \in 1 .. Len(hist.bklog) :
        /\ i < j
        /\ hist.bklog[i].ts # hist.bklog[j].ts
        /\ hist.bklog[i].pre # hist.bklog[j].pre
        /\ backups[hist.bklog[i].ts] = hist.bklog[i].pre
        /\ backups[hist.bklog[j].ts] = hist.bklog[j].pre
        /\ cyc[0].pc = "returned"

(***************************************************************************)
(* Properties of the evaluator.                                            *)
(***************************************************************************)
\* the evaluation of thread t has returned its mapping
Evaluated(t) == cyc[t].pc \in {"backup", "skipped"}

\* entry i of the mapping is for key i and holds the fallback when the
\* evaluation of key i raised, and else the value the evaluation gave
EntryRight(t, i) ==
    /\ cyc[t].values[i][1] = flag_keys[i]
    /\ cyc[t].seen[i][1] = flag_keys[i]
    /\ cyc[t].values[i][2] =
           IF cyc[t].seen[i][2] THEN Fallback ELSE cyc[t].seen[i][3]

\* C5: _evaluate_all_flags returns a mapping with exactly the N tracked
\* keys, whatever each evaluation did: a key whose evaluation raised maps to
\* "", every other key to its evaluated value, and every key is evaluated,
\* also after one that raised
C5_EvaluationTotal ==
    /\ Evaluated(0) =>
         /\ Len(cyc[0].values) = Len(flag_keys)
         /\ Len(cyc[0].seen) = Len(flag_keys)
         /\ \A i \in 1 .. Len(flag_keys) : EntryRight(0, i)
    /\ cyc[0].pc = "eval" =>
         /\ Len(cyc[0].values) = cyc[0].i - 1
         /\ Len(cyc[0].seen) = cyc[0].i - 1
         /\ \A i \in 1 .. Len(cyc[0].values) : EntryRight(0, i)

\* two keys, the first evaluation raised, the second gave a value
C5_Witness ==
    /\ Evaluated(0)
    /\ Len(flag_keys) = 2
    /\ cyc[0].seen[1][2]
    /\ ~cyc[0].seen[2][2]
    /\ cyc[0].values[1][2] = Fallback
    /\ cyc[0].values[2][2] = VY

(***************************************************************************)
(* Properties of the daemon.                                               *)
(***************************************************************************)
Running == { id \in 1 .. Len(timers) : timers[id].st = "running" }

\* C2: at no time are two executions of the debounced action, started by
\* the Debouncer, in progress at once
C2_OneCycleInFlight == Cardinality(Running) <= 1

\* C9: once the credential check has passed, no failure of the core ends
\* the daemon: start() is never left by an exception
C9_NoFailureTerminates == pc # "crashed"

Stopped == pc \in {"stopped", "exited"}

\* a stop() call changes the stop flag and nothing else of the program
StopOnlySetsFlag ==
    (hist'.stops # hist.stops) =>
        /\ stop_event'
        /\ UNCHANGED << cfgVars, fsVars, second, srcVars, debVars, now, cyc,
                        pc, idx >>

\* the teardown runs once, in order, and on the control thread
TeardownOnce ==
    /\ \/ hist.teardown = <<>> /\ pc \notin {"closing", "stopped", "exited"}
       \/ hist.teardown = <<"cancel">> /\ pc = "closing"
       \/ hist.teardown = <<"cancel", "close">> /\ Stopped
    /\ Stopped => client = "closed"

\* C10: once the daemon is LISTENING, a stop request, made once or several
\* times, brings it to STOPPED in the end; stop() only sets the stop flag,
\* and the teardown, cancel then close, runs exactly once, on the control
\* thread
C10_StopLeadsToStopped ==
    /\ []TeardownOnce
    /\ [][StopOnlySetsFlag]_vars
    /\ (pc = "listening" /\ stop_event) ~> Stopped

\* the daemon has stopped after two stop requests, and its teardown has
\* cancelled a pending debounced action
C10_Witness ==
    /\ pc = "stopped"
    /\ hist.stops = 2
    /\ hist.teardown = <<"cancel", "close">>
    /\ \E id \in 1 .. Len(timers) : timers[id].by = "cancel"

\* with a blank credential nothing has been opened, evaluated, scheduled or
\* registered, and start() is before or at its exit
NothingStarted ==
    /\ pc \in {"created", "exit2"}
    /\ client = "none"
    /\ listeners = {}
    /\ inflight = 0
    /\ timer = 0
    /\ timers = <<>>
    /\ \A t \in Threads : cyc[t] = IdleCycle

\* C14: when the credential is blank, start() terminates with a non-zero
\* status, and before that no connection to the remote source is opened, no
\* flag is evaluated, the file is not written and no listener is registered
C14_BlankCredentialExits ==
    /\ [](~sdk_key => NothingStarted)
    /\ [][~sdk_key => UNCHANGED fsVars]_vars
    /\ [](ExitStatus(pc) = 2 => ~sdk_key)
    /\ []<>(~sdk_key => (pc = "exit2" /\ ExitStatus(pc) # 0))

\* start() has exited on a blank credential, with the file it found
C14_Witness ==
    /\ ~sdk_key
    /\ pc = "exit2"
    /\ ExitStatus(pc) = 2
    /\ file # NoFile
    /\ hist.states = <<"CREATED", "FATAL">>

LifecycleOrder ==
    <<"CREATED", "INITIALIZING", "LISTENING", "STOPPING", "STOPPED">>

\* C15: with a valid credential the lifecycle moves along CREATED,
\* INITIALIZING, LISTENING, STOPPING, STOPPED, in that order, with no state
\* skipped or entered twice, and a run that ends ends in STOPPED
C15_LifecycleForward ==
    sdk_key =>
        /\ Len(hist.states) <= Len(LifecycleOrder)
        /\ hist.states = SubSeq(LifecycleOrder, 1, Len(hist.states))
        /\ ExitStatus(pc) # -1 => hist.states = LifecycleOrder

\* a change can reach the Debouncer: a listener is registered, or a
\* notification or a timer exists
ListenersExist == listeners # {} \/ inflight > 0 \/ timers # <<>>

\* the initial sync of start() is over and has run in full
InitSyncComplete ==
    /\ hist.initsync \in {"returned", "skipped"}
    /\ cyc[0] = IdleCycle
    /\ pc \in {"register", "listening", "stopping", "closing", "stopped",
               "exited"}

\* a step that changes the file, its permissions or a backup is a step of a
\* debounced cycle on the thread of a timer that runs
WrittenByDebouncedAction ==
    (fsVars' # fsVars)
    => \E id \in Running : cyc'[id] # cyc[id] /\ cyc'[0] = cyc[0]

\* C16: start() completes one full evaluation and persist before any change
\* listener is registered: the initial sync never runs while a debounced
\* cycle does, and once listeners exist only debounced cycles write
C16_InitialSyncBeforeListeners ==
    /\ [](ListenersExist => InitSyncComplete)
    /\ [](Running # {} => cyc[0] = IdleCycle)
    /\ [][ListenersExist => WrittenByDebouncedAction]_vars

\* a listener is registered, the initial sync has returned, and a debounced
\* cycle is writing the file
C16_Witness ==
    /\ listeners # {}
    /\ hist.initsync = "returned"
    /\ pc = "listening"
    /\ \E id \in Running : cyc[id].pc = "write" /\ cyc[id].i > 1

\* the file holds for every tracked key the value the source has for it now
FileCurrent ==
    \A i \in 1 .. Len(flag_keys) :
        Lookup(file, flag_keys[i]) = remote[flag_keys[i]]

\* no evaluation has raised and no cycle has failed
NoFailure ==
    /\ \A t \in Threads :
           /\ cyc[t].pc # "raised"
           /\ \A i \in 1 .. Len(cyc[t].seen) : ~cyc[t].seen[i][2]
    /\ \A id \in 1 .. Len(timers) : timers[id].res # "failed"
    /\ hist.initsync # "raised"

\* the daemon listens, with a listener for every tracked key
ListeningToAll ==
    /\ pc = "listening"
    /\ listeners = { flag_keys[i] : i \in 1 .. Len(flag_keys) }

\* C18: when the daemon keeps running with its listeners registered, the
\* flag values stop changing and no evaluation or write fails, the file in
\* the end holds, and keeps holding, the current value of every tracked key,
\* also for a change made between the initial sync and the registration
C18_EventualConsistency ==
    (<>[]ListeningToAll /\ []NoFailure) => <>[]FileCurrent

\* C19: once _shutdown has completed, no evaluation and persist cycle
\* starts any more and none writes to the file, its permissions or a backup
C19_NoCycleAfterShutdown ==
    [][Stopped =>
         /\ UNCHANGED fsVars
         /\ \A id \in 1 .. MaxTimers :
                TimerSt(id)' = "running" => TimerSt(id) = "running"]_vars

====
